---- MODULE Spec2Model ----
(***************************************************************************)
(* The TikTok crawl pipeline of components/scraper.py as a state machine:  *)
(* the search loop of extract_influencers, one asyncio task per search     *)
(* item (process_video_item), the comment and reply paginators, and the    *)
(* POST of _save_video_sync.  A task is suspended only while an httpx GET  *)
(* is in flight, so one action is one stretch of code between two GETs.    *)
(* run_forever of main.py, which calls main() again after each run, is     *)
(* followed in the specification SpecForever.                              *)
(***************************************************************************)
EXTENDS Integers, Sequences, FiniteSets, TLC

\* ---------------------------------------------------------------- bounds
MaxInfluencers == 1     \* max_influencers is drawn from 0..MaxInfluencers
MaxSearchFetches == 2   \* search fetches the model follows in one run
MaxItems == 2           \* search results the service holds for the keyword
MaxCommentPages == 2    \* comment pages the service holds for one video
MaxReplyPages == 2      \* reply pages the service holds for one comment
MaxToken == 1           \* numeric continuation tokens are 0..MaxToken
MaxRuns == 2            \* calls of main() that run_forever is followed through
MaxCount == 3           \* likes, comments and shares are tried over 0..MaxCount

\* ------------------------------------------------------ program constants
PageLimit == 20         \* self.limit
CommentLimit == 20      \* limit of extract_comments
CommentCap == 100       \* the comment limit of extract_comments
InlineMax == 4          \* reply counts up to this use the inline list

\* ------------------------------------------------------------ the service
Users == {"a", "b"}

\* Python's None / an absent key, for values that are otherwise records
None == [none |-> TRUE]

Tag(b) == IF b THEN "true" ELSE "false"

\* a reply as the service sends it: no is_author_reply key
Reply(rid, u) == [rid |-> rid, user |-> u, is_author_reply |-> "absent"]

\* a comment as the service sends it
Comment(cid, u, total, inline) ==
  [cid |-> cid, user |-> u, reply_comment_total |-> total,
   reply_comment |-> inline, is_author_reply |-> "absent", replies |-> <<>>]

\* a comment without replies, one at the inline threshold, one above it
C0 == Comment("c0", "a", 0, <<>>)
C4 == Comment("c4", "b", InlineMax, <<Reply("i1", "a"), Reply("i2", "b")>>)
C5 == Comment("c5", "b", InlineMax + 1, <<Reply("i3", "b")>>)

SeqsUpTo(S, n) == UNION { [1..k -> S] : k \in 0..n }

\* a batch of n comments without replies, all by a user who is no creator
Filler(n) == [j \in 1..n |-> Comment("c0", "z", 0, <<>>)]

\* the comment batches the service sends: the limit of a fetch does not bind it
CommentBatches ==
  { <<>>, <<C4, C5>>, <<C5, C0>>, Filler(CommentCap - 1) }

\* the item kinds: which expected keys of a search item are usable
ItemKinds == {"ok", "noviews", "nostats", "novideo", "nouid", "badtime"}

Item(kind) ==
  [kind |-> kind,
   author |-> [uniqueId |-> IF kind = "noviews" THEN "b" ELSE "a",
               followerCount |-> 1],
   stats |-> [diggCount |-> 10, shareCount |-> 5, commentCount |-> 5,
              playCount |-> IF kind = "noviews" THEN 0 ELSE 100]]

ItemPool == { Item(k) : k \in ItemKinds }

\* key presence, by kind
HasStats(item) == item.kind # "nostats"
HasVideoKeys(item) == item.kind # "novideo"
HasUniqueId(item) == item.kind # "nouid"
HasTimestamp(item) == item.kind # "badtime"

\* ------------------------------------------------------------------ state
VARIABLES
  sup,              \* run_forever: where it is, the calls of main() so far,
                    \* how the last one ended and the offset it left behind
  max_influencers,  \* self.max_influencers
  total_data,       \* self.total_data
  offset,           \* self.offset
  opc,              \* where extract_influencers is: test, search, gather, done
  searchLog,        \* the search fetches issued: their offset, limit and result
  tasks,            \* tasks[i]: process_video_item of the i-th item of the page
  postCount,        \* POSTs issued to the ingestion endpoint in this run
  lastPost,         \* the POST the last step issued (None: it issued none)
  ended             \* the task the last step ended, with its locals at the end

vars == <<sup, max_influencers, total_data, offset, opc, searchLog, tasks,
          postCount, lastPost, ended>>

\* ------------------------------------------------------- pure functions
\* calculate_engagement_rate dividing by at least one view
calculate_engagement_rate_clamped(likes, comments, shares, views) ==
  ((likes + comments + shares) * 100) \div (IF views > 0 THEN views ELSE 1)

\* calculate_engagement_rate; the counters of the model divide evenly
calculate_engagement_rate(likes, comments, shares, views) ==
  IF views > 0 THEN ((likes + comments + shares) * 100) \div views ELSE 0

\* the author's metadata that get_author_metadata returns for a response;
\* None is the empty map {} its except clause returns
AuthorStats == [followerCount |-> 7]
get_author_metadata(resp) == IF resp = "stats" THEN AuthorStats ELSE None

\* MergeAuthor rebuilding the author from the metadata alone
MergeAuthorFromStats(author, stats) ==
  IF stats = None THEN [author EXCEPT !.followerCount = 0]
  ELSE [author EXCEPT !.followerCount = stats.followerCount]

\* {**item['author'], **author_stats}
MergeAuthor(author, stats) ==
  IF stats = None THEN author
  ELSE [author EXCEPT !.followerCount = stats.followerCount]

\* the coroutine process_video_item(item) as gather schedules it
NewTask(item) ==
  [pc |-> "ready", item |-> item, outcome |-> "pending",
   author_stats |-> None, record |-> None,
   cursor |-> 0, total_comments |-> <<>>,
   batch |-> <<>>, k |-> 0, processed |-> <<>>,
   rcursor |-> 0, replies |-> <<>>,
   clog |-> <<>>, rlog |-> <<>>, resolved |-> None, pushes |-> 0, code |-> -1]

unique_id(t) == t.item.author.uniqueId

\* Guard without its except clause: the exception leaves the task
GuardReraises(t) ==
  [t EXCEPT !.pc = "settled", !.outcome = "raised"]

\* the except clause of process_video_item: the item is logged and dropped
Guard(t) ==
  [t EXCEPT !.pc = "settled", !.outcome = "dropped"]

\* a comment fetch of extract_comments, issued with the task's cursor
IssueCommentFetch(t) ==
  [t EXCEPT !.pc = "comments",
            !.batch = <<>>, !.k = 0, !.processed = <<>>,
            !.clog = Append(@, [cursor |-> t.cursor, limit |-> CommentLimit,
                                n |-> -2, held |-> Len(t.total_comments)])]

\* EndComments returning the comments of the unfinished page as well
EndCommentsKeepsPartial(t) ==
  [t EXCEPT !.pc = "save", !.batch = <<>>, !.k = 0, !.processed = <<>>,
            !.rcursor = 0, !.replies = <<>>,
            !.total_comments = @ \o t.processed]

\* extract_comments leaves its loop and returns total_comments
EndComments(t) ==
  [t EXCEPT !.pc = "save", !.batch = <<>>, !.k = 0, !.processed = <<>>,
            !.rcursor = 0, !.replies = <<>>]

\* AfterBatch with the cursor advanced by the comments the page returned
AfterBatchAdvancesByCount(t) ==
  IF t.processed = <<>> THEN EndComments(t)
  ELSE LET u == [t EXCEPT !.total_comments = @ \o t.processed,
                          !.cursor = @ + Len(t.processed)]
       IN IF Len(u.total_comments) >= CommentCap THEN EndComments(u)
          ELSE IssueCommentFetch(u)

\* AfterBatch without the break on an empty batch
AfterBatchNoEmptyStop(t) ==
  LET u == [t EXCEPT !.total_comments = @ \o t.processed,
                     !.cursor = @ + CommentLimit]
  IN IF Len(u.total_comments) >= CommentCap THEN EndComments(u)
     ELSE IssueCommentFetch(u)

\* extract_comments after extract_comment_batch returned t.processed
AfterBatch(t) ==
  IF t.processed = <<>> THEN EndComments(t)
  ELSE LET u == [t EXCEPT !.total_comments = @ \o t.processed,
                          !.cursor = @ + CommentLimit]
       IN IF Len(u.total_comments) >= CommentCap THEN EndComments(u)
          ELSE IssueCommentFetch(u)

\* UsesInline with the threshold off by one
UsesInlineStrict(c) == c.reply_comment_total < InlineMax

\* whether extract_comment_replies takes the inline list of a comment
UsesInline(c) == c.reply_comment_total <= InlineMax

\* IssueReplyFetch as a fetch that is started and not awaited: the comment
\* loop goes on while it is in flight
IssueReplyFetchDetached(t, cur) ==
  [t EXCEPT !.pc = "comments", !.rcursor = cur,
            !.rlog = Append(@, [cursor |-> cur, batch |-> <<>>, token |-> None,
                                answered |-> FALSE])]

\* fetch_comment_replies: the GET for str(cursor)
IssueReplyFetch(t, cur) ==
  [t EXCEPT !.pc = "replies", !.rcursor = cur,
            !.rlog = Append(@, [cursor |-> cur, batch |-> <<>>, token |-> None,
                                answered |-> FALSE])]

\* comment['is_author_reply'] = comment['user']['unique_id'] == unique_id
TagComment(c, uid) == [c EXCEPT !.is_author_reply = Tag(c.user = uid)]

\* the processed_replies of fetch_comment_replies
TagReplies(rs, uid) ==
  [j \in 1..Len(rs) |-> [rs[j] EXCEPT !.is_author_reply = Tag(rs[j].user = uid)]]

\* what extract_comment_replies returns without a fetch
InlineReplies(c) == c.reply_comment

\* extract_comment_batch records comment t.k with its replies and goes on
Resolve(t, rs) ==
  LET c == t.batch[t.k]
  IN [t EXCEPT
        !.processed = Append(@, [TagComment(c, unique_id(t)) EXCEPT !.replies = rs]),
        !.k = @ + 1,
        !.replies = <<>>,
        !.resolved = [comment |-> c, result |-> rs, fetches |-> t.rlog]]

\* the loop of extract_comment_batch from comment t.k on, up to the next GET:
\* the comments before the first one that needs a reply fetch are resolved
\* from their inline lists, one after the other
RunBatch(t) ==
  LET n == Len(t.batch)
      stops == { j \in t.k..n : ~UsesInline(t.batch[j]) }
      stop == IF stops = {} THEN n + 1
              ELSE CHOOSE j \in stops : \A h \in stops : j <= h
      done == [m \in 1..(stop - t.k) |->
                 [TagComment(t.batch[t.k + m - 1], unique_id(t))
                    EXCEPT !.replies = InlineReplies(t.batch[t.k + m - 1])]]
      u == IF stop = t.k THEN t
           ELSE [t EXCEPT !.processed = @ \o done,
                          !.k = stop,
                          !.rlog = <<>>,
                          !.resolved = [comment |-> t.batch[stop - 1],
                                        result |-> InlineReplies(t.batch[stop - 1]),
                                        fetches |-> <<>>]]
  IN IF stop > n THEN AfterBatch(u)
     ELSE IssueReplyFetch([u EXCEPT !.replies = <<>>, !.rlog = <<>>], 0)

\* ------------------------------------------------- the service's answers
Failure == [kind |-> "fail"]      \* get_request_data_async returned None
Garbage == [kind |-> "garbage"]   \* HTTP 200 with a body json.loads rejects

IntToken(n) == [type |-> "int", val |-> n]
StrToken == [type |-> "str", val |-> 0]   \* a textual or absent cursor
Tokens == { IntToken(n) : n \in 0..MaxToken } \cup {StrToken}

CommentAnswer(b) == [kind |-> "ok", comments |-> b]
ReplyAnswer(b, tok) == [kind |-> "ok", comments |-> b, cursor |-> tok]

ReplyBatches == { <<>>, <<Reply("f1", "a"), Reply("f2", "b")>> }

\* extract_comments with the answer r to its comment fetch
OnCommentAnswer(t, r) ==
  LET n == IF r.kind = "ok" THEN Len(r.comments) ELSE -1
      u == [t EXCEPT !.clog[Len(t.clog)].n = n]
  IN IF r.kind # "ok"
     THEN EndComments(u)   \* json.loads raises; the except clause breaks
     ELSE RunBatch([u EXCEPT !.batch = r.comments, !.k = 1, !.processed = <<>>])

\* whether the loop of extract_comment_replies ends on this batch
RepliesExhausted(new_replies) == new_replies = <<>>

\* OnReplyAnswer sending the continuation token back as it came
OnReplyAnswerCarriesToken(t, r) ==
  IF r.kind # "ok"
  THEN EndComments(t)
  ELSE LET new_replies == TagReplies(r.comments, unique_id(t))
           u == [t EXCEPT !.rlog[Len(t.rlog)] =
                   [cursor |-> t.rcursor, batch |-> r.comments,
                    token |-> r.cursor, answered |-> TRUE]]
       IN IF RepliesExhausted(new_replies)
          THEN RunBatch(Resolve(u, u.replies))
          ELSE IF r.cursor.type # "int"
               THEN EndComments(u)
               ELSE IssueReplyFetch([u EXCEPT !.replies = @ \o new_replies],
                                    r.cursor.val)

\* extract_comment_replies with the answer r to its reply fetch
OnReplyAnswer(t, r) ==
  IF r.kind # "ok"
  THEN EndComments(t)      \* json.loads raises up to extract_comments
  ELSE LET new_replies == TagReplies(r.comments, unique_id(t))
           u == [t EXCEPT !.rlog[Len(t.rlog)] =
                   [cursor |-> t.rcursor, batch |-> r.comments,
                    token |-> r.cursor, answered |-> TRUE]]
       IN IF RepliesExhausted(new_replies)
          THEN RunBatch(Resolve(u, u.replies))
          ELSE IF r.cursor.type # "int"
               THEN EndComments(u)   \* cursor += 1 raises TypeError
               ELSE IssueReplyFetch([u EXCEPT !.replies = @ \o new_replies],
                                    r.cursor.val + 1)

\* --------------------------------------------------- process_video_item
\* up to the profile GET: the engagement rate reads item['stats']
StartItem(t) ==
  IF ~HasStats(t.item) THEN Guard(t)
  ELSE [t EXCEPT !.pc = "profile"]

\* from the profile answer to the first comment GET
OnProfileAnswer(t, resp) ==
  LET it == t.item
      engagement_rate ==
        calculate_engagement_rate(it.stats.diggCount, it.stats.commentCount,
                                  it.stats.shareCount, it.stats.playCount)
      author_stats == get_author_metadata(resp)
      processed_item == [author |-> MergeAuthor(it.author, author_stats),
                         engagement_rate |-> engagement_rate,
                         stats |-> it.stats,
                         comments |-> <<>>]
  IN IF ~HasVideoKeys(it) THEN Guard([t EXCEPT !.author_stats = author_stats])
     ELSE IF ~HasUniqueId(it)
          THEN Guard([t EXCEPT !.author_stats = author_stats,
                               !.record = processed_item])
          ELSE IssueCommentFetch([t EXCEPT !.author_stats = author_stats,
                                           !.record = processed_item,
                                           !.cursor = 0, !.total_comments = <<>>])

\* the response codes of the ingestion endpoint; 0 is a RequestException
PostCodes == {200, 422, 500, 0}

\* whether _save_video_sync gets as far as the POST of input_data_to_api
ReachesPost(t) == HasTimestamp(t.item)

\* what input_data_to_api makes of the response to its one POST: the value
\* it returns and whether it logs a failure
input_data_to_api(code) ==
  IF code = 200 THEN [returns |-> "text", failure_logged |-> FALSE]
  ELSE IF code = 422 THEN [returns |-> "None", failure_logged |-> FALSE]
  ELSE [returns |-> "None", failure_logged |-> TRUE]

\* Save letting a response other than 200 escape as an exception
SaveEscalates(t, code) ==
  [t EXCEPT !.pc = "settled",
            !.outcome = IF ReachesPost(t) /\ code # 200 THEN "raised" ELSE "saved",
            !.record = [@ EXCEPT !.comments = t.total_comments],
            !.pushes = IF ReachesPost(t) THEN @ + 1 ELSE @,
            !.code = IF ReachesPost(t) THEN code ELSE @]

\* Save with a second POST after a response other than 200
SaveRetries(t, code) ==
  [t EXCEPT !.pc = "settled", !.outcome = "saved",
            !.record = [@ EXCEPT !.comments = t.total_comments],
            !.pushes = IF ReachesPost(t) THEN @ + (IF code = 200 THEN 1 ELSE 2) ELSE @,
            !.code = IF ReachesPost(t) THEN code ELSE @]

\* save_video_data at the end of process_video_item: nothing escapes it
Save(t, code) ==
  [t EXCEPT !.pc = "settled", !.outcome = "saved",
            !.record = [@ EXCEPT !.comments = t.total_comments],
            !.pushes = IF ReachesPost(t) THEN @ + 1 ELSE @,
            !.code = IF ReachesPost(t) THEN code ELSE @]

\* a finished coroutine keeps no locals: what gather still sees of it
Finished(t) ==
  [NewTask(t.item) EXCEPT !.pc = "settled", !.outcome = t.outcome,
                          !.pushes = t.pushes, !.code = t.code]

\* Step with the pushed record appended to self.total_data by the task
StepAppends(i, t1, code) ==
  LET s == IF t1.pc = "save" THEN Save(t1, code) ELSE t1
  IN /\ tasks' = [tasks EXCEPT ![i] = IF s.pc = "settled" THEN Finished(s) ELSE s]
     /\ ended' = IF s.pc = "settled" THEN [idx |-> i, task |-> s] ELSE None
     /\ IF s.pushes > tasks[i].pushes
        THEN /\ postCount' = postCount + (s.pushes - tasks[i].pushes)
             /\ lastPost' = [page |-> Len(searchLog), idx |-> i,
                             record |-> s.record, code |-> code]
             /\ total_data' = Append(total_data, s.record)
        ELSE postCount' = postCount /\ lastPost' = None
               /\ UNCHANGED total_data

\* a task's step ends at its next GET or, with no suspension, after the save;
\* no statement of it assigns to self.total_data
Step(i, t1, code) ==
  LET s == IF t1.pc = "save" THEN Save(t1, code) ELSE t1
  IN /\ tasks' = [tasks EXCEPT ![i] = IF s.pc = "settled" THEN Finished(s) ELSE s]
     /\ ended' = IF s.pc = "settled" THEN [idx |-> i, task |-> s] ELSE None
     /\ IF s.pushes > tasks[i].pushes
        THEN /\ postCount' = postCount + (s.pushes - tasks[i].pushes)
             /\ lastPost' = [page |-> Len(searchLog), idx |-> i,
                             record |-> s.record, code |-> code]
        ELSE postCount' = postCount /\ lastPost' = None
     /\ UNCHANGED total_data

\* ---------------------------------------------------- what the service holds
\* the profile GET: no answer, a page without the stats blob, a page whose
\* blob json.loads rejects, a page with a usable blob
ProfileResults == {"fail", "nomatch", "unparsable", "stats"}

\* Crawl: several search pages of several items, each video with few
\* comments.  Video: one search page of one item, with every profile answer,
\* comment batch, reply batch and response code.
Crawl ==
  [targets |-> 0..MaxInfluencers,
   pages |-> SeqsUpTo({Item("ok"), Item("novideo"), Item("badtime")}, MaxItems),
   items |-> MaxItems,
   depth |-> MaxSearchFetches,
   profiles |-> {"stats"},
   batches |-> { <<>>, <<C5>> },
   cpages |-> 1,
   replies |-> { <<>> },
   rpages |-> 1,
   tokens |-> {IntToken(0)},
   codes |-> {200, 0}]

Video ==
  [targets |-> {0, 1},
   pages |-> SeqsUpTo({ Item(k) : k \in ItemKinds \ {"noviews", "badtime"} }, 1),
   items |-> 1,
   depth |-> 1,
   profiles |-> ProfileResults,
   batches |-> CommentBatches,
   cpages |-> MaxCommentPages,
   replies |-> ReplyBatches,
   rpages |-> MaxReplyPages,
   tokens |-> Tokens,
   codes |-> PostCodes]

\* Forever: runs of main() one after the other, each over search pages of
\* one item, with or without views
Forever ==
  [targets |-> {0, 1},
   pages |-> SeqsUpTo({Item("ok"), Item("noviews")}, 1),
   items |-> MaxItems,
   depth |-> MaxSearchFetches,
   profiles |-> {"stats"},
   batches |-> { <<>>, <<C5>> },
   cpages |-> 1,
   replies |-> { <<>> },
   rpages |-> 1,
   tokens |-> {IntToken(0)},
   codes |-> {200}]

RECURSIVE SumItems(_)
\* the items of the answered pages of a search log
SumItems(log) ==
  IF log = <<>> THEN 0
  ELSE (IF log[1].n > 0 THEN log[1].n ELSE 0) + SumItems(Tail(log))

\* a page holds results the earlier pages have not served; past the pages
\* the service answers, a fetch fails
SearchAnswers(env) ==
  IF Len(searchLog) > env.depth THEN {Failure}
  ELSE {Failure, Garbage, [kind |-> "nokey"]}
         \cup { [kind |-> "ok", item_list |-> p] :
                  p \in { q \in env.pages :
                            Len(q) + SumItems(searchLog) <= env.items } }

\* past the pages the service holds, a fetch fails or comes back empty
CommentAnswers(env, t) ==
  {Failure, Garbage}
    \cup { CommentAnswer(b) :
             b \in IF Len(t.clog) <= env.cpages THEN env.batches ELSE {<<>>} }

ReplyAnswers(env, t) ==
  {Failure, Garbage, ReplyAnswer(<<>>, IntToken(0))}
    \cup { ReplyAnswer(b, tok) :
             b \in (IF Len(t.rlog) <= env.rpages THEN env.replies \ {<<>>} ELSE {}),
             tok \in env.tokens }

\* ---------------------------------------------------------------- actions
InitIn(env) ==
  /\ sup = [pc |-> "main", runs |-> 1, raised |-> FALSE, left |-> 0]
  /\ max_influencers \in env.targets
  /\ total_data = <<>>
  /\ offset = 0
  /\ opc = "test"
  /\ searchLog = <<>>
  /\ tasks = <<>>
  /\ postCount = 0
  /\ lastPost = None
  /\ ended = None

\* the while test holds: the search GET for (keyword, offset, limit)
SearchFetch ==
  /\ opc = "test"
  /\ Len(total_data) < max_influencers
  /\ Len(searchLog) < MaxSearchFetches
  /\ searchLog' = Append(searchLog, [offset |-> offset, limit |-> PageLimit, n |-> -2])
  /\ opc' = "search"
  /\ UNCHANGED <<sup, max_influencers, total_data, offset, tasks, postCount>>
  /\ lastPost' = None /\ ended' = None

\* the while test fails: return self.total_data
LoopExit ==
  /\ opc = "test"
  /\ ~(Len(total_data) < max_influencers)
  /\ opc' = "done"
  /\ UNCHANGED <<sup, max_influencers, total_data, offset, searchLog, tasks, postCount>>
  /\ lastPost' = None /\ ended' = None

\* SearchResp with a failed or unparsable answer skipped: the loop goes on
\* to its test and fetches the same offset again
SearchRespRetries(r) ==
  /\ opc = "search"
  /\ searchLog' = [searchLog EXCEPT ![Len(searchLog)].n =
                     IF r.kind = "ok" THEN Len(r.item_list) ELSE -1]
  /\ IF r.kind = "ok"
     THEN /\ tasks' = [i \in 1..Len(r.item_list) |-> NewTask(r.item_list[i])]
          /\ opc' = "gather"
     ELSE /\ opc' = "test"
          /\ UNCHANGED tasks
  /\ UNCHANGED <<sup, max_influencers, total_data, offset, postCount>>
  /\ lastPost' = None /\ ended' = None

\* the search answer: json.loads, one coroutine an item, asyncio.gather
SearchResp(r) ==
  /\ opc = "search"
  /\ searchLog' = [searchLog EXCEPT ![Len(searchLog)].n =
                     IF r.kind = "ok" THEN Len(r.item_list) ELSE -1]
  /\ IF r.kind = "ok"
     THEN /\ tasks' = [i \in 1..Len(r.item_list) |-> NewTask(r.item_list[i])]
          /\ opc' = "gather"
     ELSE /\ opc' = "done"      \* the except clause breaks
          /\ UNCHANGED tasks
  /\ UNCHANGED <<sup, max_influencers, total_data, offset, postCount>>
  /\ lastPost' = None /\ ended' = None

TaskStart(i) ==
  /\ opc = "gather"
  /\ tasks[i].pc = "ready"
  /\ Step(i, StartItem(tasks[i]), -1)
  /\ UNCHANGED <<sup, max_influencers, offset, opc, searchLog>>

ProfileResp(i, resp) ==
  /\ tasks[i].pc = "profile"
  /\ Step(i, OnProfileAnswer(tasks[i], resp), -1)
  /\ UNCHANGED <<sup, max_influencers, offset, opc, searchLog>>

CommentResp(i, r, code) ==
  /\ tasks[i].pc = "comments"
  /\ Step(i, OnCommentAnswer(tasks[i], r), code)
  /\ UNCHANGED <<sup, max_influencers, offset, opc, searchLog>>

ReplyResp(i, r, code) ==
  /\ tasks[i].pc = "replies"
  /\ Step(i, OnReplyAnswer(tasks[i], r), code)
  /\ UNCHANGED <<sup, max_influencers, offset, opc, searchLog>>

\* GatherReturns as a wait for the first task only
GatherFirstCompleted(ts) ==
  ts = <<>> \/ \E i \in DOMAIN ts : ts[i].pc = "settled"

\* asyncio.gather returns once every task of the page is done, or raises as
\* soon as one task has raised
GatherReturns(ts) ==
  \/ \A i \in DOMAIN ts : ts[i].pc = "settled"
  \/ \E i \in DOMAIN ts : ts[i].outcome = "raised"

\* after the barrier: the stop test and the next offset
GatherDone ==
  /\ opc = "gather"
  /\ GatherReturns(tasks)
  /\ IF \E i \in DOMAIN tasks : tasks[i].outcome = "raised"
     THEN opc' = "done" /\ UNCHANGED offset    \* gather re-raises; break
     ELSE IF Len(total_data) >= max_influencers
          THEN opc' = "done" /\ UNCHANGED offset
          ELSE opc' = "test" /\ offset' = offset + PageLimit
  /\ tasks' = <<>>       \* the finished tasks are gone from the event loop
  /\ UNCHANGED <<sup, max_influencers, total_data, searchLog, postCount>>
  /\ lastPost' = None /\ ended' = None

\* main() ends after extract_influencers has returned: normally, or by an
\* exception while the Actor context is left; run_forever logs it and sleeps
MainEnds(raises) ==
  /\ sup.pc = "main"
  /\ opc = "done"
  /\ sup' = [sup EXCEPT !.pc = "sleep", !.raised = raises, !.left = offset]
  /\ UNCHANGED <<max_influencers, total_data, offset, opc, searchLog, tasks,
                 postCount>>
  /\ lastPost' = None /\ ended' = None

\* the sleep of run_forever is over: the next call of main()
Restart ==
  /\ sup.pc = "sleep"
  /\ sup.runs < MaxRuns
  /\ sup' = [sup EXCEPT !.pc = "main", !.runs = @ + 1]
  /\ opc' = "setup"
  /\ UNCHANGED <<max_influencers, total_data, offset, searchLog, tasks, postCount>>
  /\ lastPost' = None /\ ended' = None

\* main() raises before it has built a scraper (the dataset, the input or
\* the keyword); run_forever logs it and sleeps
SetupRaises ==
  /\ sup.pc = "main"
  /\ opc = "setup"
  /\ sup' = [sup EXCEPT !.pc = "sleep", !.raised = TRUE]
  /\ UNCHANGED <<max_influencers, total_data, offset, opc, searchLog, tasks,
                 postCount>>
  /\ lastPost' = None /\ ended' = None

\* Construct going on with the scraper of the run before
ConstructKeepsScraper(m) ==
  /\ sup.pc = "main"
  /\ opc = "setup"
  /\ max_influencers' = m
  /\ opc' = "test"
  /\ searchLog' = <<>> /\ tasks' = <<>> /\ postCount' = 0
  /\ UNCHANGED <<sup, total_data, offset>>
  /\ lastPost' = None /\ ended' = None

\* main() builds its TikTokScraper and calls extract_influencers
Construct(m) ==
  /\ sup.pc = "main"
  /\ opc = "setup"
  /\ max_influencers' = m
  /\ total_data' = <<>>
  /\ offset' = 0
  /\ opc' = "test"
  /\ searchLog' = <<>> /\ tasks' = <<>> /\ postCount' = 0
  /\ UNCHANGED sup
  /\ lastPost' = None /\ ended' = None

NextIn(env) ==
  \/ SearchFetch
  \/ LoopExit
  \/ \E r \in SearchAnswers(env) : SearchResp(r)
  \/ \E i \in DOMAIN tasks : TaskStart(i)
  \/ \E i \in DOMAIN tasks, resp \in env.profiles : ProfileResp(i, resp)
  \/ \E i \in DOMAIN tasks :
       \E r \in CommentAnswers(env, tasks[i]), code \in env.codes :
         CommentResp(i, r, code)
  \/ \E i \in DOMAIN tasks :
       \E r \in ReplyAnswers(env, tasks[i]), code \in env.codes :
         ReplyResp(i, r, code)
  \/ GatherDone

Init == InitIn(Crawl)
Next == NextIn(Crawl)
InitVideo == InitIn(Video)
NextVideo == NextIn(Video)

InitForever == InitIn(Forever)
NextForever ==
  \/ NextIn(Forever)
  \/ \E raises \in BOOLEAN : MainEnds(raises)
  \/ Restart
  \/ SetupRaises
  \/ \E m \in Forever.targets : Construct(m)

Spec == Init /\ [][Next]_vars
SpecForever == InitForever /\ [][NextForever]_vars
SpecVideo == InitVideo /\ [][NextVideo]_vars

\* ------------------------------------------------------------- the claims
\* the tasks of the page as they can be observed: the ones in the event loop
\* and, in the step a task settles, that task as it ended
Observed ==
  { tasks[i] : i \in DOMAIN tasks }
    \cup (IF ended = None THEN {} ELSE {ended.task})

\* every task of the page has POSTed its record and got HTTP 200
AllPushedOk(ts) ==
  /\ ts # <<>>
  /\ \A i \in DOMAIN ts :
       ts[i].pc = "settled" /\ ts[i].outcome = "saved"
         /\ ts[i].pushes = 1 /\ ts[i].code = 200

\* C1: the records emitted through the Persister in one run never exceed
\* max_influencers.
C1_PushesWithinCap == postCount <= max_influencers

\* C2: with max_influencers >= 1, every page non-empty and every item pushed
\* successfully, the loop ends at the page barrier at which the accumulated
\* count has reached max_influencers: no further search fetch follows.
C2_StopsAtTarget ==
  [][ ( /\ opc = "gather" /\ opc' # "gather"
        /\ max_influencers >= 1
        /\ \A k \in DOMAIN searchLog : searchLog[k].n >= 1
        /\ AllPushedOk(tasks)
        /\ postCount = SumItems(searchLog)
        /\ postCount >= max_influencers )
      => opc' = "done" ]_vars

\* C3: after a search fetch that returned an empty item list no further
\* search fetch is issued; an empty first page means one fetch and no push.
C3_EmptyPageEnds ==
  \A k \in DOMAIN searchLog :
    searchLog[k].n = 0 => (k = Len(searchLog) /\ (k = 1 => postCount = 0))

\* a reply list without the is_author_reply marks
Bare(rs) == [j \in 1..Len(rs) |-> [rid |-> rs[j].rid, user |-> rs[j].user]]

RECURSIVE ConcatBatches(_)
\* the batches of a reply log, in fetch order
ConcatBatches(log) ==
  IF log = <<>> THEN <<>> ELSE log[1].batch \o ConcatBatches(Tail(log))

\* C4: extract_comments never holds or returns more than 100 comments, and no
\* comment page fetch is in flight while it holds 100 or more.
C4_CommentCap ==
  \A t \in Observed :
    /\ Len(t.total_comments) <= 100
    /\ t.pc = "comments" => Len(t.total_comments) < 100

\* C5: a comment with reply count <= 4 gets exactly its inline list and no
\* reply fetch; one with reply count > 4 gets exactly the fetched batches in
\* fetch order and none of its inline entries.
C5_OneReplySource ==
  \A t \in Observed :
    LET r == t.resolved
    IN r # None =>
         IF r.comment.reply_comment_total <= 4
         THEN r.result = r.comment.reply_comment /\ r.fetches = <<>>
         ELSE /\ r.fetches # <<>>
              /\ \A k \in DOMAIN r.fetches : r.fetches[k].answered
              /\ Bare(r.result) = Bare(ConcatBatches(r.fetches))
              /\ \A j \in DOMAIN r.result, h \in DOMAIN r.comment.reply_comment :
                   r.result[j].rid # r.comment.reply_comment[h].rid

\* a video whose comments hold one resolved inline and one resolved by two
\* non-empty reply fetches
C5_Witness ==
  \E t \in Observed :
    \E j, h \in DOMAIN t.total_comments :
      /\ t.total_comments[j].reply_comment_total = 4
      /\ Len(t.total_comments[j].replies) = 2
      /\ t.total_comments[h].reply_comment_total = 5
      /\ Len(t.total_comments[h].replies) = 4

\* C6: in every record handed to the Persister each comment and each reply
\* under it carries is_author_reply, true exactly when its author is the
\* creator of the video.
C6_AuthorFlags ==
  lastPost # None =>
    LET creator == lastPost.record.author.uniqueId
        cs == lastPost.record.comments
    IN \A j \in DOMAIN cs :
         /\ cs[j].is_author_reply = Tag(cs[j].user = creator)
         /\ \A h \in DOMAIN cs[j].replies :
              cs[j].replies[h].is_author_reply = Tag(cs[j].replies[h].user = creator)

\* an item with every expected key and a usable creation time
WellFormed(item) ==
  HasStats(item) /\ HasVideoKeys(item) /\ HasUniqueId(item) /\ HasTimestamp(item)

\* C7: no task ends by raising; a settled malformed item has no push, a
\* settled well-formed item has its push whatever its siblings did, and the
\* loop ends only on its own test or on a failed search fetch.
C7_TasksNeverRaise ==
  /\ \A t \in Observed :
       /\ t.outcome # "raised"
       /\ t.pc = "settled" =>
            IF WellFormed(t.item)
            THEN t.outcome = "saved" /\ t.pushes = 1
            ELSE t.pushes = 0
  /\ opc = "done" =>
       \/ max_influencers = 0
       \/ searchLog # <<>> /\ searchLog[Len(searchLog)].n = -1

\* a dropped malformed item, settled, beside a sibling that is pushed in
\* this step although its comment fetch failed
C7_Witness ==
  /\ opc = "gather" /\ Len(tasks) = 2
  /\ tasks[1].pc = "settled" /\ tasks[1].outcome = "dropped"
  /\ ~WellFormed(tasks[1].item)
  /\ ended # None /\ ended.idx = 2
  /\ ended.task.pushes = 1 /\ ended.task.clog[1].n = -1

\* C8: the orchestrator makes no move (stop test, offset, next search fetch)
\* while a task of the current page is unsettled.
C8_PageBarrier ==
  [][ (opc' # opc \/ offset' # offset \/ searchLog' # searchLog)
      => \A i \in DOMAIN tasks : tasks[i].pc = "settled" ]_vars

\* the barrier of a two-item page has been passed
C8_Witness ==
  /\ opc = "test" /\ offset = PageLimit
  /\ searchLog[1].n = 2 /\ postCount = 2

\* an exception was raised in the profile/merge or comment-pagination step
RaisedInStep(t) ==
  \/ t.outcome = "dropped"
  \/ \E k \in DOMAIN t.clog : t.clog[k].n = -1

\* C9 as stated: at most one push an item, only after its fetches, and no
\* push at all once an exception was raised in one of its steps.
C9_NoPushAfterException ==
  \A t \in Observed :
    /\ t.pushes <= 1
    /\ t.pushes = 1 => t.pc = "settled"
    /\ RaisedInStep(t) => t.pushes = 0

\* C9 amended: at most one push an item, after its profile fetch and its
\* comment pagination; an exception that reaches process_video_item's handler
\* leaves no push; one inside comment pagination is caught there and the
\* record is pushed with the comments collected so far; one while the record
\* is mapped in _save_video_sync leaves no POST.
C9_PushDiscipline ==
  /\ \A t \in Observed :
       /\ t.pushes <= 1
       /\ t.pushes = 1 => t.pc = "settled" /\ t.outcome = "saved"
       /\ t.outcome = "dropped" => t.pushes = 0
       /\ (t.pc = "settled" /\ ~HasTimestamp(t.item)) =>
            t.outcome = "saved" /\ t.pushes = 0
       /\ (t.pc = "settled" /\ WellFormed(t.item)) => t.pushes = 1
  /\ (lastPost # None) = (ended # None /\ ended.task.pushes = 1)
  /\ lastPost # None =>
       LET t == ended.task
       IN /\ ended.idx = lastPost.idx
          /\ t.record = lastPost.record
          /\ t.clog # <<>> /\ \A k \in DOMAIN t.clog : t.clog[k].n # -2
          /\ t.record.comments = t.total_comments

\* a record pushed after its second comment fetch failed
C9_Witness ==
  /\ lastPost # None
  /\ Len(ended.task.clog) = 2
  /\ ended.task.clog[2].n = -1
  /\ Len(lastPost.record.comments) = 1

\* C10: an empty comment batch is the last comment fetch of its video and an
\* empty reply batch the last reply fetch of its comment; what was collected
\* before the empty batch is returned.
C10_EmptyBatchEnds ==
  \A t \in Observed :
    LET n == Len(t.clog)
    IN /\ \A k \in DOMAIN t.clog : t.clog[k].n = 0 => k = n
       /\ (n > 0 /\ t.clog[n].n = 0) =>
            /\ t.pc = "settled"
            /\ Len(t.record.comments) = SumItems(t.clog)
       /\ \A k \in DOMAIN t.rlog :
            (t.rlog[k].answered /\ t.rlog[k].batch = <<>>) =>
              /\ k = Len(t.rlog)
              /\ t.pc # "replies"
              /\ t.resolved.fetches = t.rlog
              /\ Bare(t.resolved.result) = Bare(ConcatBatches(t.rlog))

\* a video ended by an empty second page whose last comment took two reply
\* fetches, the second one empty
C10_Witness ==
  /\ ended # None
  /\ Len(ended.task.clog) = 2
  /\ ended.task.clog[1].n = 2 /\ ended.task.clog[2].n = 0
  /\ Len(ended.task.record.comments) = 2
  /\ Len(ended.task.rlog) = 2 /\ ended.task.rlog[2].batch = <<>>
  /\ Len(ended.task.resolved.result) = 2

\* C11: a search fetch that fails in transport or returns an unparsable
\* answer is the last search fetch of the run: no task is spawned for it and
\* extract_influencers has returned.
C11_SearchFailureEnds ==
  \A k \in DOMAIN searchLog :
    searchLog[k].n = -1 =>
      /\ k = Len(searchLog)
      /\ opc = "done"
      /\ tasks = <<>>

\* the second search fetch failed after a page whose item was pushed
C11_Witness ==
  /\ Len(searchLog) = 2
  /\ searchLog[1].n >= 1 /\ searchLog[2].n = -1
  /\ postCount >= 1
  /\ opc = "done"

\* C12: a profile fetch that fails, or whose statistics blob is missing or
\* unparsable, makes get_author_metadata return the empty map; the record
\* then keeps the item's author fields as they are, has the engagement rate
\* of the item's own counters, and is pushed.
C12_ProfileFailureKeepsAuthor ==
  /\ \A resp \in ProfileResults \ {"stats"} : get_author_metadata(resp) = None
  /\ \A t \in Observed :
       (t.record # None /\ t.author_stats = None) =>
         /\ t.record.author = t.item.author
         /\ t.record.stats = t.item.stats
         /\ t.record.engagement_rate =
              calculate_engagement_rate(t.item.stats.diggCount,
                                        t.item.stats.commentCount,
                                        t.item.stats.shareCount,
                                        t.item.stats.playCount)
         /\ (t.pc = "settled" /\ WellFormed(t.item)) =>
              /\ t.outcome = "saved" /\ t.pushes = 1
              /\ lastPost # None /\ lastPost.record = t.record

\* a record pushed after its profile fetch failed, with two comments
C12_Witness ==
  /\ lastPost # None
  /\ ended.task.author_stats = None
  /\ lastPost.record.author = ended.task.item.author
  /\ lastPost.record.engagement_rate = 20
  /\ Len(lastPost.record.comments) = 2

\* C13: a pushed record costs exactly one POST whatever the response (200,
\* 422, another status or a request error): nothing is retried, nothing
\* escapes to the task or the loop, and on 422 no failure is reported.
C13_OnePostPerRecord ==
  [][ /\ postCount' \in {postCount, postCount + 1}
      /\ (postCount' = postCount + 1) = (lastPost' # None)
      /\ lastPost' # None =>
           /\ lastPost'.code \in PostCodes
           /\ ended' # None /\ ended'.idx = lastPost'.idx
           /\ ended'.task.pushes = 1
           /\ ended'.task.code = lastPost'.code
           /\ ended'.task.outcome = "saved"
           /\ tasks'[lastPost'.idx].pc = "settled"
           /\ tasks'[lastPost'.idx].outcome = "saved"
           /\ opc' = "gather"
           /\ lastPost'.code = 422 =>
                ~input_data_to_api(lastPost'.code).failure_logged ]_vars

\* the one record of a page got a 422 and its task settled as saved
C13_Witness ==
  /\ opc = "gather"
  /\ lastPost # None /\ lastPost.code = 422
  /\ postCount = 1
  /\ tasks[1].pc = "settled" /\ tasks[1].outcome = "saved" /\ tasks[1].code = 422

\* C14: a call of main() that ends, by an exception or not, leaves
\* run_forever asleep and then restarted; the run that follows starts from a
\* new scraper: an empty total_data, and offset 0 in its first search fetch.
C14_RestartFromScratch ==
  [][ /\ (sup.pc = "main" /\ sup'.pc # "main") => sup'.pc = "sleep"
      /\ (sup'.runs # sup.runs) =>
           /\ sup.pc = "sleep" /\ sup'.pc = "main"
           /\ sup'.runs = sup.runs + 1
           /\ opc' = "setup"
      /\ (opc = "setup" /\ opc' # "setup" /\ sup'.pc = "main") =>
           /\ opc' = "test"
           /\ total_data' = <<>> /\ offset' = 0 /\ tasks' = <<>>
      /\ (searchLog = <<>> /\ searchLog' # <<>>) =>
           /\ Len(searchLog') = 1
           /\ searchLog'[1].offset = 0
           /\ total_data' = <<>> ]_vars

\* the second run, started after main() raised with the offset advanced, has
\* issued its first search fetch
C14_Witness ==
  /\ sup.runs = 2 /\ sup.pc = "main" /\ sup.raised
  /\ sup.left = PageLimit
  /\ opc = "search"
  /\ Len(searchLog) = 1 /\ searchLog[1].offset = 0

\* C15: calculate_engagement_rate is 0 for 0 views whatever the other
\* counters; an item with 0 views is not dropped for it and is pushed with
\* engagement rate 0.
C15_ZeroViewsZeroRate ==
  /\ \A likes, comments, shares \in 0..MaxCount :
       calculate_engagement_rate(likes, comments, shares, 0) = 0
  /\ \A t \in Observed :
       t.item.stats.playCount = 0 =>
         /\ t.outcome # "dropped"
         /\ t.record # None => t.record.engagement_rate = 0
         /\ t.pc = "settled" => t.outcome = "saved" /\ t.pushes = 1
  /\ (lastPost # None /\ lastPost.record.stats.playCount = 0) =>
       lastPost.record.engagement_rate = 0

\* the record of an item with likes, comments and shares but 0 views is
\* pushed with engagement rate 0
C15_Witness ==
  /\ lastPost # None
  /\ lastPost.record.stats.playCount = 0
  /\ lastPost.record.stats.diggCount > 0
  /\ lastPost.record.engagement_rate = 0
  /\ lastPost.code = 200

\* the comment fetches and the reply fetches of a task that have no answer yet
OpenCommentFetches(t) == { k \in DOMAIN t.clog : t.clog[k].n = -2 }
OpenReplyFetches(t) == { k \in DOMAIN t.rlog : ~t.rlog[k].answered }

C17_OnlyLoopAccumulates ==
  [][ /\ (total_data' # total_data \/ offset' # offset) =>
           /\ opc = "gather" /\ opc' = "test"
           /\ \A i \in DOMAIN tasks : tasks[i].pc = "settled"
           /\ tasks' = <<>>
      /\ (opc = "gather" /\ opc' = "gather") =>
           /\ total_data' = total_data
           /\ offset' = offset ]_vars

\* after the barrier of a page of two tasks, one pushed and one dropped, the
\* offset has advanced
C17_Witness ==
  /\ opc = "test" /\ offset = PageLimit
  /\ searchLog[1].n = 2 /\ postCount = 1
  /\ total_data = <<>>

\* C18: the k-th search fetch of a run has offset 20*(k-1) and limit 20, and
\* the offset moves by one page size at a time and never back; the k-th
\* comment fetch of a video has cursor 20*(k-1) and limit 20, however many
\* comments the page before it returned.
C18_FixedPageSteps ==
  [][ /\ \A k \in DOMAIN searchLog' :
           /\ searchLog'[k].offset = PageLimit * (k - 1)
           /\ searchLog'[k].limit = PageLimit
      /\ offset' \in {offset, offset + PageLimit}
      /\ offset' \in {PageLimit * (Len(searchLog') - 1), PageLimit * Len(searchLog')}
      /\ \A i \in DOMAIN tasks' :
           \A k \in DOMAIN tasks'[i].clog :
             /\ tasks'[i].clog[k].cursor = CommentLimit * (k - 1)
             /\ tasks'[i].clog[k].limit = CommentLimit
      /\ ended' # None =>
           \A k \in DOMAIN ended'.task.clog :
             /\ ended'.task.clog[k].cursor = CommentLimit * (k - 1)
             /\ ended'.task.clog[k].limit = CommentLimit ]_vars

\* the second search fetch is out, and a video of its page is at its second
\* comment fetch after a first page of one comment
C18_Witness ==
  /\ Len(searchLog) = 2 /\ searchLog[2].offset = PageLimit
  /\ \E i \in DOMAIN tasks :
       /\ Len(tasks[i].clog) = 2
       /\ tasks[i].clog[1].n = 1
       /\ tasks[i].clog[2].cursor = CommentLimit

\* the reply fetches of a log follow one another as extract_comment_replies
\* chains them: cursor 0 first, then the token of the fetch before plus 1,
\* and none after an empty batch
ChainedByToken(log) ==
  /\ log # <<>> => log[1].cursor = 0
  /\ \A k \in DOMAIN log :
       k > 1 =>
         /\ log[k - 1].answered
         /\ log[k - 1].batch # <<>>
         /\ log[k - 1].token.type = "int"
         /\ log[k].cursor = log[k - 1].token.val + 1

\* no two fetches of a log have the same cursor
DistinctCursors(log) ==
  \A j, k \in DOMAIN log : j # k => log[j].cursor # log[k].cursor

\* C19 as stated: the reply fetches of a comment start at cursor 0, each
\* later cursor is the token of the fetch before plus 1, up to an empty
\* batch; with numeric tokens no cursor is fetched twice.
C19_NoCursorTwice ==
  \A t \in Observed :
    /\ ChainedByToken(t.rlog)
    /\ DistinctCursors(t.rlog)

\* the numeric tokens of the answered fetches of a log grow from fetch to
\* fetch and are not negative
IncreasingTokens(log) ==
  \A k \in DOMAIN log :
    (log[k].answered /\ log[k].batch # <<>> /\ log[k].token.type = "int") =>
      /\ log[k].token.val >= 0
      /\ \A j \in 1..(k - 1) : log[j].token.val < log[k].token.val

\* C19 amended: the reply fetches of a comment start at cursor 0 and each
\* later cursor is the token of the fetch before plus 1, up to an empty
\* batch; no cursor is fetched twice when the numeric tokens the service
\* returns grow from fetch to fetch, and the same cursor is fetched again
\* when the service repeats a token.
C19_CursorFollowsToken ==
  \A t \in Observed :
    /\ ChainedByToken(t.rlog)
    /\ IncreasingTokens(t.rlog) => DistinctCursors(t.rlog)
    /\ \A j, k \in DOMAIN t.rlog :
         (1 < j /\ j < k /\ t.rlog[j - 1].token = t.rlog[k - 1].token) =>
           t.rlog[j].cursor = t.rlog[k].cursor

\* three reply fetches of one comment, chained by the tokens 0 and 1
C19_Witness ==
  \E i \in DOMAIN tasks :
    /\ tasks[i].pc = "replies"
    /\ Len(tasks[i].rlog) = 3
    /\ tasks[i].rlog[1].token = IntToken(0)
    /\ tasks[i].rlog[2].token = IntToken(1)
    /\ tasks[i].rlog[3].cursor = 2

\* the last reply fetch of the task failed: it got no usable answer, or a
\* non-empty batch with a token that is no number
ReplyFailed(t) ==
  /\ t.rlog # <<>>
  /\ t.pc # "replies"
  /\ LET e == t.rlog[Len(t.rlog)]
     IN \/ ~e.answered
        \/ e.batch # <<>> /\ e.token.type # "int"

\* C20: a reply fetch that fails, or a non-empty reply batch with a
\* non-numeric or missing token, ends the comment pagination of the video: the
\* page in progress is dropped whole, no comment page is fetched after it,
\* and the record is pushed with the comments of the earlier pages only.
C20_ReplyFailureTruncates ==
  \A t \in Observed :
    ReplyFailed(t) =>
      LET n == Len(t.clog)
      IN /\ t.pc = "settled" /\ t.outcome = "saved" /\ t.pushes = 1
         /\ n >= 1 /\ t.clog[n].n >= 1
         /\ Len(t.total_comments) = t.clog[n].held
         /\ Len(t.total_comments) = SumItems(SubSeq(t.clog, 1, n - 1))
         /\ t.record.comments = t.total_comments
         /\ lastPost # None /\ lastPost.record.comments = t.total_comments

\* the second comment page is dropped, its first comment already resolved
\* inline, when the reply batch of its second comment comes with a token that
\* is no number; the record goes out with the two comments of the first page
C20_Witness ==
  /\ ended # None /\ ReplyFailed(ended.task)
  /\ Len(ended.task.clog) = 2
  /\ ended.task.clog[1].n = 2 /\ ended.task.clog[2].n = 2
  /\ ended.task.resolved.comment = C4
  /\ ended.task.rlog[Len(ended.task.rlog)].token = StrToken
  /\ lastPost # None /\ Len(lastPost.record.comments) = 2
====
